---- MODULE Spec2Model ----
(***************************************************************************)
(* Word selection, used-word ledger and countdown timer of the             *)
(* PictionaryWordGenerator component (src/src/PictionaryWordGenerator.tsx).*)
(* One action per event handler / timer callback; every action includes    *)
(* the re-render and the effects React runs after the handler returns.     *)
(***************************************************************************)
EXTENDS Integers, Sequences, FiniteSets, TLC

----------------------------------------------------------------------------
(* Bounds of the model *)

\* longest ledger found in storage when the component mounts
MaxL0 == 1
\* Math.random() is drawn from {0/RandGrain, ..., (RandGrain-1)/RandGrain}
RandGrain == 3

----------------------------------------------------------------------------
(* Program constants *)

TIMER_DURATION == 60
TIMER_OPTIONS == {30, 45, 60, 75, 90, 120}
\* ALL_PLAY_PROBABILITY = 0.2 = AllPlayNum / AllPlayDen
AllPlayNum == 1
AllPlayDen == 5

Null == "<null>"

\* The word pool in Object.entries order.  "cat" is listed in two categories;
\* "random" is the category that forces All Play.
WORD_CATEGORIES ==
  << [key |-> "animals", color |-> "blue", words |-> <<"cat", "dog">>],
     [key |-> "random",  color |-> "red",  words |-> <<"cat">>] >>

\* a word that is in no category (a stale ledger entry)
StaleWord == "zebra"

----------------------------------------------------------------------------
(* Generic helpers *)

Range(s) == {s[i] : i \in 1..Len(s)}

SeqsUpTo(S, n) == UNION {[1..k -> S] : k \in 0..n}

PoolWords == UNION {Range(WORD_CATEGORIES[c].words) : c \in 1..Len(WORD_CATEGORIES)}

PoolPairs ==
  UNION {{[category |-> cat.key, word |-> cat.words[i]] : i \in 1..Len(cat.words)} :
           cat \in Range(WORD_CATEGORIES)}

----------------------------------------------------------------------------
(* localStorage value: JSON text as a token sequence *)

Tok(t, v) == [t |-> t, v |-> v]

RECURSIVE StringifyItems(_)
StringifyItems(s) ==
  IF Len(s) = 0 THEN <<>>
  ELSE IF Len(s) = 1 THEN <<Tok("str", s[1])>>
  ELSE <<Tok("str", s[1]), Tok("comma", "")>> \o StringifyItems(Tail(s))

\* JSON.stringify of an array of strings
JSONStringify(s) == <<Tok("lbracket", "")>> \o StringifyItems(s) \o <<Tok("rbracket", "")>>

\* items of a token sequence str (comma str)* ; ok = FALSE when malformed
RECURSIVE ParseItems(_)
ParseItems(ts) ==
  IF Len(ts) = 0 THEN [ok |-> FALSE, value |-> <<>>]
  ELSE IF ts[1].t # "str" THEN [ok |-> FALSE, value |-> <<>>]
  ELSE IF Len(ts) = 1 THEN [ok |-> TRUE, value |-> <<ts[1].v>>]
  ELSE IF ts[2].t # "comma" THEN [ok |-> FALSE, value |-> <<>>]
  ELSE LET rest == ParseItems(SubSeq(ts, 3, Len(ts)))
       IN  [ok |-> rest.ok,
            value |-> IF rest.ok THEN <<ts[1].v>> \o rest.value ELSE <<>>]

\* JSON.parse restricted to arrays of strings
JSONParse(ts) ==
  IF Len(ts) < 2 \/ ts[1].t # "lbracket" \/ ts[Len(ts)].t # "rbracket"
    THEN [ok |-> FALSE, value |-> <<>>]
  ELSE IF Len(ts) = 2 THEN [ok |-> TRUE, value |-> <<>>]
  ELSE ParseItems(SubSeq(ts, 2, Len(ts) - 1))

\* localStorage slot of STORAGE_KEY
Absent == [present |-> FALSE, text |-> <<>>]
Stored(text) == [present |-> TRUE, text |-> text]

\* useState initialiser of usedWords: saved ? JSON.parse(saved) : [].
\* ok = FALSE stands for JSON.parse throwing out of the initialiser.
LoadUsedWords(slot) ==
  IF slot.present /\ Len(slot.text) > 0
    THEN JSONParse(slot.text)
    ELSE [ok |-> TRUE, value |-> <<>>]

----------------------------------------------------------------------------
VARIABLES
  usedWords,        \* ledger, in insertion order
  currentCategory,  \* category key or Null
  currentWord,      \* word or Null
  isAllPlay,
  timerDuration,
  timeRemaining,
  timerRunning,
  wordRevealed,
  storage,          \* localStorage slot of STORAGE_KEY
  timerRef,         \* TRUE iff an interval is scheduled
  intervals,        \* number of intervals created by setInterval and not yet cleared
  mounted,          \* TRUE iff the component is rendered (its first render did not throw)
  shown,            \* history: words of the mounted ledger and of selections since the last reset
  lastOp            \* history: the last handler that ran and the alerts it dispatched

vars == <<usedWords, currentCategory, currentWord, isAllPlay, timerDuration,
          timeRemaining, timerRunning, wordRevealed, storage,
          timerRef, intervals, mounted, shown, lastOp>>

\* timer state machine position (spec 4.3), read off the component state
TimerState ==
  IF currentWord = Null THEN "Idle"
  ELSE IF timerRunning THEN "Running"
  ELSE IF timeRemaining = 0 THEN "Expired"
  ELSE "Ready"

\* history record of a handler run: its name, the timer state it ran in, its
\* argument (the duration chosen, the All-Play draw of a selection, 0 when it
\* has none) and the number of alerts it dispatched
Op(name, arg, alerts) ==
  [op |-> name, from |-> TimerState, arg |-> arg, alerts |-> alerts]

----------------------------------------------------------------------------
(* Effects run after a render *)

\* persistence effect, deps [usedWords]: runs when the handler set a new array
\* mutation: the effect does not write
PersistEffect_Skips(wasSet, newUsed, slot) == slot

PersistEffect(wasSet, newUsed, slot) ==
  IF wasSet THEN Stored(JSONStringify(newUsed)) ELSE slot

\* timer effect, deps [timerRunning, timeRemaining]: cleanup clears the old
\* interval, the body schedules a new one only while running with time left
\* mutation: the cleanup does not clear the interval it replaces
TimerEffect_NoClear(newRunning, newRemaining) ==
  IF newRunning # timerRunning \/ newRemaining # timeRemaining
    THEN timerRef \/ (newRunning /\ newRemaining > 0)
    ELSE timerRef

TimerEffect(newRunning, newRemaining) ==
  IF newRunning # timerRunning \/ newRemaining # timeRemaining
    THEN newRunning /\ newRemaining > 0
    ELSE timerRef

\* mutation: the cleanup does not call clearInterval
IntervalsAfter_NoClear(newRunning, newRemaining) ==
  IF newRunning # timerRunning \/ newRemaining # timeRemaining
    THEN intervals + (IF newRunning /\ newRemaining > 0 THEN 1 ELSE 0)
    ELSE intervals

\* intervals alive after the timer effect: the cleanup clears the interval
\* timerRef.current holds, the body creates one while running with time left
IntervalsAfter(newRunning, newRemaining) ==
  IF newRunning # timerRunning \/ newRemaining # timeRemaining
    THEN (intervals - (IF timerRef THEN 1 ELSE 0))
         + (IF newRunning /\ newRemaining > 0 THEN 1 ELSE 0)
    ELSE intervals

----------------------------------------------------------------------------
(* Selector *)

\* mutation: only the most recently used word is excluded
RECURSIVE CategoryAvailable_LastOnly(_, _, _)
CategoryAvailable_LastOnly(cat, i, used) ==
  IF i > Len(cat.words) THEN <<>>
  ELSE (IF Len(used) > 0 /\ cat.words[i] = used[Len(used)]
          THEN <<>>
          ELSE <<[category |-> cat.key, word |-> cat.words[i], color |-> cat.color]>>)
       \o CategoryAvailable_LastOnly(cat, i + 1, used)

RECURSIVE CategoryAvailable(_, _, _)
CategoryAvailable(cat, i, used) ==
  IF i > Len(cat.words) THEN <<>>
  ELSE (IF cat.words[i] \in Range(used)
          THEN <<>>
          ELSE <<[category |-> cat.key, word |-> cat.words[i], color |-> cat.color]>>)
       \o CategoryAvailable(cat, i + 1, used)

RECURSIVE AvailableFrom(_, _)
AvailableFrom(c, used) ==
  IF c > Len(WORD_CATEGORIES) THEN <<>>
  ELSE CategoryAvailable(WORD_CATEGORIES[c], 1, used) \o AvailableFrom(c + 1, used)

\* mutation: the ledger is not consulted
getAvailableWords_IgnoreLedger(used) == AvailableFrom(1, <<>>)

getAvailableWords(used) == AvailableFrom(1, used)

\* "Words Remaining: availableCount / totalWords"
availableCount(used) == Len(getAvailableWords(used))

RECURSIVE TotalFrom(_)
TotalFrom(c) ==
  IF c > Len(WORD_CATEGORIES) THEN 0
  ELSE Len(WORD_CATEGORIES[c].words) + TotalFrom(c + 1)

totalWords == TotalFrom(1)

\* Math.floor(Math.random() * n) for Math.random() = k / RandGrain, zero based
RandomIndex(k, n) == (k * n) \div RandGrain

\* Math.random() < ALL_PLAY_PROBABILITY for Math.random() = k / RandGrain
BelowAllPlayProbability(k) == k * AllPlayDen < AllPlayNum * RandGrain

RandomDraws == 0..(RandGrain - 1)

\* mutation: the "random" category does not force All Play
ShouldBeAllPlay_NoForce(category, k) == BelowAllPlayProbability(k)

\* selected.category == 'random' ? true : Math.random() < ALL_PLAY_PROBABILITY
ShouldBeAllPlay(category, k) ==
  IF category = "random" THEN TRUE ELSE BelowAllPlayProbability(k)

\* how many times React calls a state updater function: once, or twice when
\* the root is rendered inside <StrictMode> by a development build
UpdaterInvocations == {1, 2}

----------------------------------------------------------------------------
\* texts a completed JSON.stringify(usedWords) write leaves in the slot
ValidTexts == {JSONStringify(l) : l \in SeqsUpTo(PoolWords \cup {StaleWord}, MaxL0)}

\* malformed texts: the proper non-empty prefixes of the valid ones
CorruptTexts == UNION {{SubSeq(t, 1, k) : k \in 1..(Len(t) - 1)} : t \in ValidTexts}

\* slot contents the component can find when it mounts
SavedSlots == {Absent} \cup {Stored(t) : t \in ValidTexts \cup CorruptTexts}

Init ==
  /\ \E saved \in SavedSlots :
       LET loaded == LoadUsedWords(saved)
       IN  /\ mounted = loaded.ok
           /\ usedWords = loaded.value
           /\ storage = (IF loaded.ok THEN PersistEffect(TRUE, loaded.value, saved) ELSE saved)
  /\ currentCategory = Null
  /\ currentWord = Null
  /\ isAllPlay = FALSE
  /\ timerDuration = TIMER_DURATION
  /\ timeRemaining = TIMER_DURATION
  /\ timerRunning = FALSE
  /\ wordRevealed = FALSE
  /\ timerRef = FALSE
  /\ intervals = 0
  /\ shown = Range(usedWords)
  /\ lastOp = (IF mounted THEN Op("mount", 0, 0) ELSE Op("mountFailed", 0, 0))

----------------------------------------------------------------------------
(* Handlers *)

\* mutation: reset removes the storage key but forgets setUsedWords([])
ResetGameUpdates_KeepsLedger ==
  /\ currentCategory' = Null
  /\ currentWord' = Null
  /\ isAllPlay' = FALSE
  /\ timeRemaining' = timerDuration
  /\ timerRunning' = FALSE
  /\ wordRevealed' = FALSE
  /\ storage' = PersistEffect(FALSE, usedWords, Absent)
  /\ timerRef' = TimerEffect(FALSE, timerDuration)
  /\ intervals' = IntervalsAfter(FALSE, timerDuration)
  /\ shown' = {}
  /\ UNCHANGED <<timerDuration, usedWords>>

\* mutation: reset forgets setCurrentWord(null)
ResetGameUpdates_KeepsWord ==
  /\ usedWords' = <<>>
  /\ currentCategory' = Null
  /\ isAllPlay' = FALSE
  /\ timeRemaining' = timerDuration
  /\ timerRunning' = FALSE
  /\ wordRevealed' = FALSE
  /\ storage' = PersistEffect(TRUE, <<>>, Absent)
  /\ timerRef' = TimerEffect(FALSE, timerDuration)
  /\ intervals' = IntervalsAfter(FALSE, timerDuration)
  /\ shown' = {}
  /\ UNCHANGED <<timerDuration, currentWord>>

\* state updates of resetGame followed by the render and both effects
ResetGameUpdates ==
  /\ usedWords' = <<>>
  /\ currentCategory' = Null
  /\ currentWord' = Null
  /\ isAllPlay' = FALSE
  /\ timeRemaining' = timerDuration
  /\ timerRunning' = FALSE
  /\ wordRevealed' = FALSE
  /\ storage' = PersistEffect(TRUE, <<>>, Absent)
  /\ timerRef' = TimerEffect(FALSE, timerDuration)
  /\ intervals' = IntervalsAfter(FALSE, timerDuration)
  /\ shown' = {}
  /\ UNCHANGED timerDuration

resetGame ==
  /\ mounted
  /\ UNCHANGED mounted
  /\ ResetGameUpdates
  /\ lastOp' = Op("reset", 0, 0)

\* mutation: the selection forgets setTimeRemaining(timerDuration)
ApplySelection_NoRewind(selected, shouldBeAllPlay) ==
  /\ currentCategory' = selected.category
  /\ currentWord' = selected.word
  /\ isAllPlay' = shouldBeAllPlay
  /\ usedWords' = Append(usedWords, selected.word)
  /\ timerRunning' = FALSE
  /\ wordRevealed' = FALSE
  /\ storage' = PersistEffect(TRUE, Append(usedWords, selected.word), storage)
  /\ timerRef' = TimerEffect(FALSE, timeRemaining)
  /\ intervals' = IntervalsAfter(FALSE, timeRemaining)
  /\ UNCHANGED <<timerDuration, timeRemaining>>

\* mutation: the selection stores the category's colour as the category
ApplySelection_ColorAsCategory(selected, shouldBeAllPlay) ==
  /\ currentCategory' = selected.color
  /\ currentWord' = selected.word
  /\ isAllPlay' = shouldBeAllPlay
  /\ usedWords' = Append(usedWords, selected.word)
  /\ timeRemaining' = timerDuration
  /\ timerRunning' = FALSE
  /\ wordRevealed' = FALSE
  /\ storage' = PersistEffect(TRUE, Append(usedWords, selected.word), storage)
  /\ timerRef' = TimerEffect(FALSE, timerDuration)
  /\ intervals' = IntervalsAfter(FALSE, timerDuration)
  /\ UNCHANGED timerDuration

\* mutation: the selection forgets setUsedWords([...usedWords, selected.word])
ApplySelection_NoAppend(selected, shouldBeAllPlay) ==
  /\ currentCategory' = selected.category
  /\ currentWord' = selected.word
  /\ isAllPlay' = shouldBeAllPlay
  /\ timeRemaining' = timerDuration
  /\ timerRunning' = FALSE
  /\ wordRevealed' = FALSE
  /\ storage' = PersistEffect(FALSE, usedWords, storage)
  /\ timerRef' = TimerEffect(FALSE, timerDuration)
  /\ intervals' = IntervalsAfter(FALSE, timerDuration)
  /\ UNCHANGED <<timerDuration, usedWords>>

\* the seven state updates of a successful selection, the render and both effects
ApplySelection(selected, shouldBeAllPlay) ==
  /\ currentCategory' = selected.category
  /\ currentWord' = selected.word
  /\ isAllPlay' = shouldBeAllPlay
  /\ usedWords' = Append(usedWords, selected.word)
  /\ timeRemaining' = timerDuration
  /\ timerRunning' = FALSE
  /\ wordRevealed' = FALSE
  /\ storage' = PersistEffect(TRUE, Append(usedWords, selected.word), storage)
  /\ timerRef' = TimerEffect(FALSE, timerDuration)
  /\ intervals' = IntervalsAfter(FALSE, timerDuration)
  /\ UNCHANGED timerDuration

selectRandomWord ==
  /\ mounted
  /\ UNCHANGED mounted
  /\ LET available == getAvailableWords(usedWords) IN
       IF Len(available) = 0
         THEN \E shouldReset \in BOOLEAN :
                IF shouldReset
                  THEN ResetGameUpdates /\ lastOp' = Op("exhaustedReset", 0, 0)
                  ELSE /\ lastOp' = Op("exhaustedCancel", 0, 0)
                       /\ UNCHANGED <<usedWords, currentCategory, currentWord, isAllPlay,
                                      timerDuration, timeRemaining, timerRunning,
                                      wordRevealed, storage, timerRef, intervals, shown>>
         ELSE \E k1 \in RandomDraws, k2 \in RandomDraws :
                LET selected == available[RandomIndex(k1, Len(available)) + 1]
                    shouldBeAllPlay == ShouldBeAllPlay(selected.category, k2)
                IN  /\ ApplySelection(selected, shouldBeAllPlay)
                    /\ shown' = shown \cup {selected.word}
                    /\ lastOp' = Op("selectWord", k2, 0)

startTimer ==
  /\ mounted
  /\ UNCHANGED mounted
  /\ currentWord # Null        \* button is disabled without a word
  /\ ~timerRunning             \* the button calls startTimer only while stopped
  /\ timerRunning' = (IF currentWord # Null THEN TRUE ELSE timerRunning)
  /\ timerRef' = TimerEffect(timerRunning', timeRemaining)
  /\ intervals' = IntervalsAfter(timerRunning', timeRemaining)
  /\ lastOp' = Op("start", 0, 0)
  /\ UNCHANGED <<usedWords, currentCategory, currentWord, isAllPlay, timerDuration,
                 timeRemaining, wordRevealed, storage, shown>>

stopTimer ==
  /\ mounted
  /\ UNCHANGED mounted
  /\ currentWord # Null
  /\ timerRunning              \* the button calls stopTimer only while running
  /\ timerRunning' = FALSE
  /\ timerRef' = TimerEffect(FALSE, timeRemaining)
  /\ intervals' = IntervalsAfter(FALSE, timeRemaining)
  /\ lastOp' = Op("stop", 0, 0)
  /\ UNCHANGED <<usedWords, currentCategory, currentWord, isAllPlay, timerDuration,
                 timeRemaining, wordRevealed, storage, shown>>

\* mutation: restart forgets setTimeRemaining(timerDuration)
restartTimer_NoRewind ==
  /\ mounted
  /\ UNCHANGED mounted
  /\ currentWord # Null
  /\ timerRunning' = TRUE
  /\ timerRef' = TimerEffect(TRUE, timeRemaining)
  /\ intervals' = IntervalsAfter(TRUE, timeRemaining)
  /\ lastOp' = Op("restart", 0, 0)
  /\ UNCHANGED <<usedWords, currentCategory, currentWord, isAllPlay, timerDuration,
                 timeRemaining, wordRevealed, storage, shown>>

\* mutation: the Restart button is not disabled without a word
restartTimer_Unguarded ==
  /\ mounted
  /\ UNCHANGED mounted
  /\ timeRemaining' = timerDuration
  /\ timerRunning' = TRUE
  /\ timerRef' = TimerEffect(TRUE, timerDuration)
  /\ intervals' = IntervalsAfter(TRUE, timerDuration)
  /\ lastOp' = Op("restart", 0, 0)
  /\ UNCHANGED <<usedWords, currentCategory, currentWord, isAllPlay, timerDuration,
                 wordRevealed, storage, shown>>

restartTimer ==
  /\ mounted
  /\ UNCHANGED mounted
  /\ currentWord # Null
  /\ timeRemaining' = timerDuration
  /\ timerRunning' = TRUE
  /\ timerRef' = TimerEffect(TRUE, timerDuration)
  /\ intervals' = IntervalsAfter(TRUE, timerDuration)
  /\ lastOp' = Op("restart", 0, 0)
  /\ UNCHANGED <<usedWords, currentCategory, currentWord, isAllPlay, timerDuration,
                 wordRevealed, storage, shown>>

\* mutation: the duration change forgets setTimeRemaining(duration)
changeTimerDuration_KeepRemaining ==
  /\ mounted
  /\ UNCHANGED mounted
  /\ \E duration \in TIMER_OPTIONS :
       /\ timerDuration' = duration
       /\ timerRunning' = FALSE
       /\ timerRef' = TimerEffect(FALSE, timeRemaining)
       /\ intervals' = IntervalsAfter(FALSE, timeRemaining)
       /\ lastOp' = Op("changeDuration", duration, 0)
  /\ UNCHANGED <<usedWords, currentCategory, currentWord, isAllPlay, timeRemaining,
                 wordRevealed, storage, shown>>

\* mutation: the duration change forgets setTimerRunning(false)
changeTimerDuration_KeepsRunning ==
  /\ mounted
  /\ UNCHANGED mounted
  /\ \E duration \in TIMER_OPTIONS :
       /\ timerDuration' = duration
       /\ timeRemaining' = duration
       /\ timerRef' = TimerEffect(timerRunning, duration)
       /\ intervals' = IntervalsAfter(timerRunning, duration)
       /\ lastOp' = Op("changeDuration", duration, 0)
  /\ UNCHANGED <<usedWords, currentCategory, currentWord, isAllPlay, timerRunning,
                 wordRevealed, storage, shown>>

changeTimerDuration ==
  /\ mounted
  /\ UNCHANGED mounted
  /\ \E duration \in TIMER_OPTIONS :
       /\ timerDuration' = duration
       /\ timeRemaining' = duration
       /\ timerRunning' = FALSE
       /\ timerRef' = TimerEffect(FALSE, duration)
       /\ intervals' = IntervalsAfter(FALSE, duration)
       /\ lastOp' = Op("changeDuration", duration, 0)
  /\ UNCHANGED <<usedWords, currentCategory, currentWord, isAllPlay,
                 wordRevealed, storage, shown>>

\* the interval callback: setTimeRemaining(prev => ...) and the following render
tick ==
  /\ mounted
  /\ UNCHANGED mounted
  /\ intervals > 0
  /\ IF timeRemaining <= 1
       THEN /\ timerRunning' = FALSE
            /\ timeRemaining' = 0
            /\ \E n \in UpdaterInvocations : lastOp' = Op("tick", 0, n)
       ELSE /\ timeRemaining' = timeRemaining - 1
            /\ timerRunning' = timerRunning
            /\ lastOp' = Op("tick", 0, 0)
  /\ timerRef' = TimerEffect(timerRunning', timeRemaining')
  /\ intervals' = IntervalsAfter(timerRunning', timeRemaining')
  /\ UNCHANGED <<usedWords, currentCategory, currentWord, isAllPlay, timerDuration,
                 wordRevealed, storage, shown>>

\* mutation: onMouseDown / onTouchStart are bound without a word too
handleWordBoxInteraction_Unguarded ==
  /\ mounted
  /\ UNCHANGED mounted
  /\ wordRevealed' = TRUE
  /\ lastOp' = Op("reveal", 0, 0)
  /\ UNCHANGED <<usedWords, currentCategory, currentWord, isAllPlay, timerDuration,
                 timeRemaining, timerRunning, storage, timerRef, intervals, shown>>

handleWordBoxInteraction ==
  /\ mounted
  /\ UNCHANGED mounted
  /\ currentWord # Null        \* onMouseDown / onTouchStart are bound only with a word
  /\ wordRevealed' = TRUE
  /\ lastOp' = Op("reveal", 0, 0)
  /\ UNCHANGED <<usedWords, currentCategory, currentWord, isAllPlay, timerDuration,
                 timeRemaining, timerRunning, storage, timerRef, intervals, shown>>

handleWordBoxRelease ==
  /\ mounted
  /\ UNCHANGED mounted
  /\ wordRevealed' = FALSE
  /\ lastOp' = Op("unreveal", 0, 0)
  /\ UNCHANGED <<usedWords, currentCategory, currentWord, isAllPlay, timerDuration,
                 timeRemaining, timerRunning, storage, timerRef, intervals, shown>>

\* the page is closed or reloaded and the component mounts again from storage;
\* the history of shown words is kept across the restart
reload ==
  LET loaded == LoadUsedWords(storage)
  IN  /\ mounted' = loaded.ok
      /\ usedWords' = loaded.value
      /\ storage' = (IF loaded.ok THEN PersistEffect(TRUE, loaded.value, storage) ELSE storage)
      /\ currentCategory' = Null
      /\ currentWord' = Null
      /\ isAllPlay' = FALSE
      /\ timerDuration' = TIMER_DURATION
      /\ timeRemaining' = TIMER_DURATION
      /\ timerRunning' = FALSE
      /\ wordRevealed' = FALSE
      /\ timerRef' = FALSE
      /\ intervals' = 0
      /\ shown' = shown
      /\ lastOp' = (IF loaded.ok THEN Op("reload", 0, 0) ELSE Op("mountFailed", 0, 0))

Next ==
  \/ selectRandomWord
  \/ resetGame
  \/ startTimer
  \/ stopTimer
  \/ restartTimer
  \/ changeTimerDuration
  \/ tick
  \/ handleWordBoxInteraction
  \/ handleWordBoxRelease
  \/ reload

Spec == Init /\ [][Next]_vars

----------------------------------------------------------------------------
(* Vocabulary of the properties *)

\* the component state and the storage slot, without the history variables
stateVars == <<usedWords, currentCategory, currentWord, isAllPlay, timerDuration,
               timeRemaining, timerRunning, wordRevealed, storage, timerRef,
               intervals, mounted>>

\* eligible set of the specification: pool pairs whose word is not in the ledger
Eligible(L) == {p \in PoolPairs : p.word \notin Range(L)}

\* the (category, word) pairs getAvailableWords enumerates
AvailablePairs(L) ==
  {[category |-> a.category, word |-> a.word] : a \in Range(getAvailableWords(L))}

CurrentPair == [category |-> currentCategory, word |-> currentWord]

ExhaustedOps == {"exhaustedReset", "exhaustedCancel"}

----------------------------------------------------------------------------
(* C1 - without replacement: a successful selection never returns a word of  *)
(* the mounted ledger or of an earlier selection since the last reset.       *)
C1_WithoutReplacement ==
  [][lastOp'.op = "selectWord" => currentWord' \notin shown]_vars

\* a selection made when other words had already been shown
C1_Witness ==
  /\ lastOp.op = "selectWord"
  /\ shown \ {currentWord} # {}
  /\ Len(usedWords) >= 2

(* C2 - the words offered are exactly the pool pairs whose word is not in    *)
(* the ledger; a selection returns one of them whenever there is one and     *)
(* reports exhaustion exactly when there is none.                            *)
C2_EligibleSet ==
  /\ [](AvailablePairs(usedWords) = Eligible(usedWords))
  /\ [][/\ lastOp'.op = "selectWord" =>
              /\ Eligible(usedWords) # {}
              /\ [category |-> currentCategory', word |-> currentWord'] \in Eligible(usedWords)
        /\ lastOp'.op \in ExhaustedOps => Eligible(usedWords) = {}]_vars

\* a word listed in two categories drawn under its second category while the
\* ledger holds a stale word
C2_Witness ==
  /\ lastOp.op = "selectWord"
  /\ StaleWord \in Range(usedWords)
  /\ CurrentPair = [category |-> "random", word |-> "cat"]

(* C3 - a successful selection, from any timer state, yields in one step:    *)
(* current pair = the drawn pair, ledger = old ledger plus the drawn word,   *)
(* Time-Remaining = Duration, not running, not revealed.                     *)
C3_SelectAtomic ==
  [][lastOp'.op = "selectWord" =>
       /\ \E p \in Eligible(usedWords) :
            /\ currentCategory' = p.category
            /\ currentWord' = p.word
            /\ usedWords' = Append(usedWords, p.word)
       /\ timerDuration' = timerDuration
       /\ timeRemaining' = timerDuration
       /\ timerRunning' = FALSE
       /\ wordRevealed' = FALSE]_vars

\* a selection made while the previous word's timer was running
C3_Witness ==
  /\ lastOp.op = "selectWord"
  /\ lastOp.from = "Running"
  /\ TimerState = "Ready"
  /\ timeRemaining = timerDuration
  /\ Len(usedWords) >= 2

(* C4 - Time-Remaining is an integer in 0..Duration and Duration is one of   *)
(* the recognised options, in every reachable state.                         *)
C4_TimerRange ==
  /\ timeRemaining \in Int
  /\ 0 <= timeRemaining
  /\ timeRemaining <= timerDuration
  /\ timerDuration \in {30, 45, 60, 75, 90, 120}

\* the duration was shortened while the longer countdown was running
C4_Witness ==
  /\ lastOp.op = "changeDuration"
  /\ lastOp.from = "Running"
  /\ timerDuration = 30
  /\ timeRemaining = 30

(* C5 - the alert is dispatched exactly once by a tick that takes            *)
(* Time-Remaining to 0 and never by anything else.                           *)
C5_AlertOncePerExpiry ==
  lastOp.alerts = (IF lastOp.op = "tick" /\ timeRemaining = 0 THEN 1 ELSE 0)

(* C6 - start with Time-Remaining = 0 changes no state variable, and the     *)
(* Expired state is left only by restart, a selection, a duration change or  *)
(* a reset.                                                                  *)
C6_StartNoOpAtZero ==
  [][/\ (lastOp'.op = "start" /\ timeRemaining = 0) => UNCHANGED stateVars
     /\ (TimerState = "Expired" /\ TimerState' # "Expired") =>
          lastOp'.op \in {"restart", "selectWord", "exhaustedReset", "changeDuration", "reset"}]_vars

(* C7 - restart, with a word selected and from any timer state, leaves the   *)
(* timer running with Time-Remaining = Duration and a tick scheduled, and    *)
(* changes neither word, category, All-Play, Duration nor the ledger.        *)
C7_Restart ==
  [][lastOp'.op = "restart" =>
       /\ currentWord # Null
       /\ timerRunning' = TRUE
       /\ timeRemaining' = timerDuration
       /\ timerRef' = TRUE
       /\ UNCHANGED <<currentWord, currentCategory, isAllPlay, timerDuration, usedWords>>]_vars

\* restart out of the Expired state
C7_Witness ==
  /\ lastOp.op = "restart"
  /\ lastOp.from = "Expired"
  /\ timerRunning
  /\ timerRef
  /\ timeRemaining = timerDuration

C9_ChangeDuration ==
  [][lastOp'.op = "changeDuration" =>
       /\ timerDuration' = lastOp'.arg
       /\ timeRemaining' = lastOp'.arg
       /\ timerRunning' = FALSE
       /\ timerRef' = FALSE
       /\ UNCHANGED <<currentWord, currentCategory, isAllPlay, usedWords>>]_vars

\* a duration change that interrupted a running countdown
C9_Witness ==
  /\ lastOp.op = "changeDuration"
  /\ lastOp.from = "Running"
  /\ lastOp.arg = 90
  /\ timerDuration = 90
  /\ currentWord # Null

(* C10 - reset returns to Idle: no word, no category, All-Play, Revealed and *)
(* Running false, Time-Remaining = Duration with Duration unchanged, ledger  *)
(* empty in memory and in storage, every pool word eligible.                 *)
C10_Reset ==
  [][lastOp'.op = "reset" =>
       /\ currentWord' = Null
       /\ currentCategory' = Null
       /\ isAllPlay' = FALSE
       /\ wordRevealed' = FALSE
       /\ timerRunning' = FALSE
       /\ timerRef' = FALSE
       /\ timerDuration' = timerDuration
       /\ timeRemaining' = timerDuration
       /\ usedWords' = <<>>
       /\ LoadUsedWords(storage') = [ok |-> TRUE, value |-> <<>>]
       /\ AvailablePairs(usedWords') = PoolPairs
       /\ TimerState' = "Idle"]_vars

\* a reset issued while a countdown was running on a non-default duration
C10_Witness ==
  /\ lastOp.op = "reset"
  /\ lastOp.from = "Running"
  /\ timerDuration = 45
  /\ timeRemaining = 45
  /\ usedWords = <<>>
  /\ LoadUsedWords(storage).value = <<>>

(* C11 - mounting never fails: with the storage key missing or holding       *)
(* malformed text the component still mounts, in Idle, with an empty ledger  *)
(* and every pool word eligible.                                             *)
C11_LoadNeverFails ==
  /\ mounted
  /\ lastOp.op # "mountFailed"
  /\ lastOp.op = "mount" => TimerState = "Idle"
  /\ (lastOp.op = "mount" /\ usedWords = <<>>) => AvailablePairs(usedWords) = PoolPairs

(* C12 - storage tracks the ledger: after every completed operation the      *)
(* stored text loads to exactly the in-memory ledger, and a restart of the   *)
(* process rehydrates the same ledger and loses no word shown before it.     *)
C12_StorageTracksLedger ==
  /\ [](mounted => LoadUsedWords(storage) = [ok |-> TRUE, value |-> usedWords])
  /\ [][(mounted /\ lastOp'.op = "reload") =>
          /\ mounted'
          /\ usedWords' = usedWords
          /\ shown \subseteq Range(usedWords')]_vars

\* a restart that interrupted a countdown, with two words in the ledger
C12_Witness ==
  /\ lastOp.op = "reload"
  /\ lastOp.from = "Running"
  /\ Len(usedWords) >= 2
  /\ LoadUsedWords(storage).value = usedWords

(* C13 - countdown: whenever the timer is Running a tick is pending, and the *)
(* tick that takes Time-Remaining to 0 leaves the timer not running and      *)
(* dispatches the alert exactly once.                                        *)
C13_Countdown ==
  /\ timerRunning => intervals > 0
  /\ (lastOp.op = "tick" /\ timeRemaining = 0) => (~timerRunning /\ lastOp.alerts = 1)

(* C14 - a selection from the "random" category is All Play whatever the     *)
(* random draw; from any other category it is All Play iff the draw is       *)
(* below 0.20.                                                               *)
C14_AllPlay ==
  [][lastOp'.op = "selectWord" =>
       isAllPlay' = (currentCategory' = "random" \/ 100 * lastOp'.arg < 20 * RandGrain)]_vars

\* a "random" selection whose draw was the largest possible
C14_Witness ==
  /\ lastOp.op = "selectWord"
  /\ currentCategory = "random"
  /\ lastOp.arg = RandGrain - 1
  /\ isAllPlay

(* C15 - at most one tick callback is outstanding, and only while the timer  *)
(* is Running: every step into a non-Running state cancels it, a tick runs   *)
(* only while Running, and start / restart never leave two scheduled.        *)
C15_SingleTick ==
  /\ [](intervals <= 1 /\ (intervals > 0 => timerRunning))
  /\ [][/\ ~timerRunning' => intervals' = 0
        /\ lastOp'.op = "tick" => (timerRunning /\ intervals = 1)
        /\ lastOp'.op \in {"start", "restart"} => intervals' <= 1]_vars

\* a restart issued while the countdown was already running
C15_Witness ==
  /\ lastOp.op = "restart"
  /\ lastOp.from = "Running"
  /\ timerRunning
  /\ intervals = 1

(* C16 - exhaustion is recoverable: a selection with nothing eligible        *)
(* selects no word and appends nothing; declined, no state variable          *)
(* changes; accepted, the state is exactly the one reset produces.           *)
C16_Exhausted ==
  [][/\ lastOp'.op \in ExhaustedOps =>
          /\ Eligible(usedWords) = {}
          /\ currentWord' \in {currentWord, Null}
          /\ usedWords' \in {usedWords, <<>>}
     /\ lastOp'.op = "exhaustedCancel" => UNCHANGED stateVars
     /\ lastOp'.op = "exhaustedReset" =>
          stateVars' = <<(<<>>), Null, Null, FALSE, timerDuration, timerDuration, FALSE,
                         FALSE, Stored(JSONStringify(<<>>)), FALSE, 0, TRUE>>]_vars

\* the prompt declined while the last word's countdown was running
C16_Witness ==
  /\ lastOp.op = "exhaustedCancel"
  /\ lastOp.from = "Running"
  /\ timerRunning
  /\ currentWord # Null
  /\ Eligible(usedWords) = {}

(* C17 - Idle invariant: with no word selected the timer is not running, no  *)
(* tick is pending and Time-Remaining = Duration; start and restart never    *)
(* run without a word.                                                       *)
C17_Idle ==
  /\ [](currentWord = Null =>
          /\ ~timerRunning
          /\ intervals = 0
          /\ ~timerRef
          /\ timeRemaining = timerDuration)
  /\ [][lastOp'.op \in {"start", "restart"} => (currentWord # Null /\ currentWord' # Null)]_vars

\* Idle with a duration chosen before any word
C17_Witness ==
  /\ lastOp.op = "changeDuration"
  /\ currentWord = Null
  /\ timerDuration = 120
  /\ timeRemaining = 120
  /\ ~timerRunning

(* C18 - the current word is null iff the current category is null, and a    *)
(* current word is in the ledger and in its category's word list.            *)
C18_CurrentPair ==
  /\ currentWord = Null <=> currentCategory = Null
  /\ currentWord # Null =>
       /\ currentWord \in Range(usedWords)
       /\ \E c \in 1..Len(WORD_CATEGORIES) :
            /\ WORD_CATEGORIES[c].key = currentCategory
            /\ currentWord \in Range(WORD_CATEGORIES[c].words)

\* the doubly listed word current under its second category
C18_Witness ==
  /\ currentWord = "cat"
  /\ currentCategory = "random"
  /\ usedWords = <<"dog", "cat">>

(* C19 - Revealed implies a word is selected; reveal runs only with a word;  *)
(* a selection or a reset hides the word until the next reveal; reveal and   *)
(* unreveal change nothing but Word Revealed.                                *)
C19_Reveal ==
  /\ [](wordRevealed => currentWord # Null)
  /\ [][/\ lastOp'.op \in {"selectWord", "reset", "exhaustedReset"} => ~wordRevealed'
        /\ lastOp'.op = "reveal" => currentWord # Null
        /\ (~wordRevealed /\ wordRevealed') => lastOp'.op = "reveal"
        /\ lastOp'.op \in {"reveal", "unreveal"} =>
             UNCHANGED <<usedWords, currentCategory, currentWord, isAllPlay,
                         timerDuration, timeRemaining, timerRunning, storage,
                         timerRef, intervals, mounted>>]_vars

\* the word revealed in the middle of a countdown
C19_Witness ==
  /\ lastOp.op = "reveal"
  /\ wordRevealed
  /\ timerRunning
  /\ 0 < timeRemaining
  /\ timeRemaining < timerDuration

\* number of pool entries carrying word w
Carrying(w) ==
  Cardinality({p \in UNION {{<<c, i>> : i \in 1..Len(WORD_CATEGORIES[c].words)} :
                              c \in 1..Len(WORD_CATEGORIES)} :
                 WORD_CATEGORIES[p[1]].words[p[2]] = w})

(* C20 - every successful selection lowers the eligible count by the number  *)
(* of pool entries carrying the drawn word (at least 1); only a reset raises *)
(* it; start, stop, restart, changeDuration, tick, reveal and unreveal leave *)
(* the ledger, and with it the count, unchanged; the count stays within      *)
(* 0..totalWords.                                                            *)
C20_EligibleCount ==
  /\ [](LET n == availableCount(usedWords) IN 0 <= n /\ n <= totalWords)
  /\ [][/\ lastOp'.op \in {"start", "stop", "restart", "changeDuration", "tick",
                           "reveal", "unreveal"} => usedWords' = usedWords
        /\ lastOp'.op = "selectWord" => usedWords' # usedWords
        /\ usedWords' # usedWords =>
             LET before == availableCount(usedWords)
                 after == availableCount(usedWords')
             IN  /\ lastOp'.op = "selectWord" =>
                      /\ Carrying(currentWord') >= 1
                      /\ after = before - Carrying(currentWord')
                 /\ after > before => lastOp'.op \in {"reset", "exhaustedReset"}]_vars

\* the doubly listed word drawn first: the count drops from 3 to 1
C20_Witness ==
  /\ lastOp.op = "selectWord"
  /\ usedWords = <<"cat">>
  /\ availableCount(usedWords) = 1
  /\ totalWords = 3

====
